---- MODULE Spec2Model ----
(***************************************************************************)
(* PyStream, pstream/_async/functors.py: the lazy sequence operators and   *)
(* the two dispatchers (factory, higher_order_factory) that select an      *)
(* implementation by the shape of the source and of the user function.     *)
(*                                                                         *)
(* One behaviour is one operator invocation: the call (op, f, streams,     *)
(* arg) is drawn in Init, Invoke runs the exported operator (dispatch,     *)
(* coercion, everything a plain function does when called), and each       *)
(* Demand is one next()/__anext__() on the returned handle: the generator  *)
(* body runs until its next yield, its end, or an exception.               *)
(***************************************************************************)
EXTENDS Integers, Sequences, FiniteSets, TLC

VARIABLES op, f, streams, arg, phase, err, m, out, demands

vars == <<op, f, streams, arg, phase, err, m, out, demands>>

\* ------------------------------------------------------------------ bounds

MaxLen == 3
MaxVal == 2
MaxArg == 3
MaxSrc == 2
MaxSrcLen == 2
MaxOut == 2 * MaxLen + MaxSrc * MaxSrcLen

Vals == 0..MaxVal

SeqsUpTo(S, n) == UNION {[1..k -> S] : k \in 0..n}

Min(a, b) == IF a < b THEN a ELSE b

Abs(a) == IF a < 0 THEN -a ELSE a

\* ------------------------------------------------------- values and shapes

\* The four shapes a source argument can have (collections.abc), and a value
\* that is none of them.
Kinds == {"Iterator", "Iterable", "AsyncIterator", "AsyncIterable", "Neither"}

\* A source object: its elements, the state of the cursor the operator reads
\* it through (pos, exh: it has signalled exhaustion), and the outcome of the
\* last pull (ok: an element x was handed out). pulled and late are ghost
\* counters: elements handed out, and pulls issued on a cursor that had already
\* signalled exhaustion.
Stream(kind, data) ==
    [kind |-> kind, data |-> data, pos |-> 0, exh |-> FALSE,
     ok |-> FALSE, x |-> 0, pulled |-> 0, late |-> 0]

\* User functions, by name. A suspending function computes the same value; it
\* differs in iscoroutinefunction(f) alone.
FNames == {"mod2", "lt1", "always", "never"}

Apply(fn, x) ==
    CASE fn.name = "mod2" -> x % 2
      [] fn.name = "lt1" -> IF x < 1 THEN 1 ELSE 0
      [] fn.name = "always" -> 1
      [] OTHER -> 0

Truthy(v) == v # 0

\* ------------------------------------------------------------------- utils

is_async_stream(s) == s.kind \in {"AsyncIterator", "AsyncIterable"}

iscoroutinefunction(fn) == fn.async

\* coerce: [ok, s]. An Iterable / AsyncIterable is asked for a cursor; ok is
\* FALSE where the code raises TypeError.
coerce(s) ==
    CASE s.kind = "AsyncIterator" -> [ok |-> TRUE, s |-> s]
      [] s.kind = "AsyncIterable" ->
            [ok |-> TRUE, s |-> [s EXCEPT !.kind = "AsyncIterator", !.pos = 0, !.exh = FALSE]]
      [] s.kind = "Iterator" -> [ok |-> TRUE, s |-> s]
      [] s.kind = "Iterable" ->
            [ok |-> TRUE, s |-> [s EXCEPT !.kind = "Iterator", !.pos = 0, !.exh = FALSE]]
      [] OTHER -> [ok |-> FALSE, s |-> s]

\* next(stream) / await stream.__anext__(): the source after the pull.
Pull(s) ==
    IF s.pos < Len(s.data)
    THEN [s EXCEPT !.pos = @ + 1, !.pulled = @ + 1, !.ok = TRUE, !.x = s.data[s.pos + 1]]
    ELSE [s EXCEPT !.exh = TRUE, !.ok = FALSE, !.late = IF s.exh THEN @ + 1 ELSE @]

\* iter(stream) / stream.__aiter__() at the head of a for loop or in a builtin's
\* constructor: a cursor returns itself, a collection a fresh cursor.
GetIter(s) ==
    IF s.kind \in {"Iterable", "AsyncIterable"}
    THEN [s EXCEPT !.pos = 0, !.exh = FALSE]
    ELSE s

\* ------------------------------------------------------ the running frame

\* The frame of the selected implementation: its arguments (fn, src, limit),
\* its locals (cnt, nxt, idx, buf, seen) and where it stands (loc). src holds
\* the source objects the frame refers to: src[1] is the `stream` argument;
\* zip reads all of src; for flatten and chain src[1] is the source of sources,
\* whose elements are the indices in src of the inner sources.
\* ev is what the last stretch of code run in the frame ended in: it goes on
\* (cont), yielded val (yield), ended (stop: StopIteration or
\* StopAsyncIteration reaches the consumer), raised exc (raise), or returned
\* to its caller (ret). fcalls is a ghost counter of calls of the user function.
NewFrame(impl, fn, src, limit) ==
    [impl |-> impl, loc |-> "new", fn |-> fn, limit |-> limit,
     cnt |-> 0, nxt |-> 0, idx |-> 0, buf |-> <<>>, seen |-> {},
     src |-> src, ev |-> "ret", val |-> 0, exc |-> "none", fcalls |-> 0]

Cont(mm) == [mm EXCEPT !.ev = "cont"]
Yield(mm, v) == [mm EXCEPT !.ev = "yield", !.val = v]
Stop(mm) == [mm EXCEPT !.ev = "stop"]
Raise(mm, e) == [mm EXCEPT !.ev = "raise", !.exc = e]
Ret(mm) == [mm EXCEPT !.ev = "ret"]

\* `for x in stream:` / `async for x in stream:` reaching its head for the
\* first time: iter(stream), a TypeError on a value that is no sequence.
ForIter(mm, loc) ==
    IF mm.src[1].kind = "Neither"
    THEN Raise(mm, "TypeError")
    ELSE Cont([mm EXCEPT !.src[1] = GetIter(@), !.loc = loc])

\* The frame after a pull on source i; Ok and X read the outcome.
PullAt(mm, i) == [mm EXCEPT !.src[i] = Pull(@)]

\* The loop over `stream` asks for its next element.
ForNext(mm) == PullAt(mm, 1)

Ok(mm) == mm.src[1].ok

X(mm) == mm.src[1].x

\* f(x) / await f(x): the frame after the call (the value is Apply(fn, x)).
Called(mm) == [mm EXCEPT !.fcalls = @ + 1]

\* ---------------------------------------------------------------- MAP

\* builtins.map: __next__.
ss_map(mm) ==
    LET p == ForNext(mm) IN
    IF Ok(p) THEN Yield(Called(p), Apply(mm.fn, X(p))) ELSE Stop(p)

g_map(mm) ==
    IF mm.loc = "new" THEN ForIter(mm, "loop")
    ELSE LET p == ForNext(mm) IN
         IF Ok(p) THEN Yield(Called(p), Apply(mm.fn, X(p))) ELSE Stop(p)

\* ---------------------------------------------------------------- FILTER

\* builtins.filter: __next__ pulls until an element passes.
ss_filter(mm) ==
    LET p == ForNext(mm) IN
    IF ~Ok(p) THEN Stop(p)
    ELSE IF Truthy(Apply(mm.fn, X(p))) THEN Yield(Called(p), X(p))
    ELSE Cont(Called(p))

g_filter(mm) ==
    IF mm.loc = "new" THEN ForIter(mm, "loop")
    ELSE LET p == ForNext(mm) IN
         IF ~Ok(p) THEN Stop(p)
         ELSE IF Truthy(Apply(mm.fn, X(p))) THEN Yield(Called(p), X(p))
         ELSE Cont(Called(p))

\* ---------------------------------------------------------------- FILTER_FALSE

\* filter(lambda x: not f(x), stream)
ss_filter_false(mm) ==
    LET p == ForNext(mm) IN
    IF ~Ok(p) THEN Stop(p)
    ELSE IF ~Truthy(Apply(mm.fn, X(p))) THEN Yield(Called(p), X(p))
    ELSE Cont(Called(p))

g_filter_false(mm) ==
    IF mm.loc = "new" THEN ForIter(mm, "loop")
    ELSE LET p == ForNext(mm) IN
         IF ~Ok(p) THEN Stop(p)
         ELSE IF ~Truthy(Apply(mm.fn, X(p))) THEN Yield(Called(p), X(p))
         ELSE Cont(Called(p))

\* ---------------------------------------------------------------- GROUP_BY

\* groups[k].append(x) on a defaultdict(list): keys keep insertion order.
AddToGroup(groups, k, x) ==
    IF \E i \in 1..Len(groups) : groups[i].key = k
    THEN [i \in 1..Len(groups) |->
            IF groups[i].key = k
            THEN [groups[i] EXCEPT !.items = Append(@, x)]
            ELSE groups[i]]
    ELSE Append(groups, [key |-> k, items |-> <<x>>])

g_group_by(mm) ==
    CASE mm.loc = "new" -> ForIter(mm, "loop")
      [] mm.loc = "loop" ->
            LET p == ForNext(mm) IN
            IF Ok(p)
            THEN Cont(Called([p EXCEPT !.buf = AddToGroup(@, Apply(mm.fn, X(p)), X(p))]))
            ELSE Cont([p EXCEPT !.loc = "emit", !.cnt = 0])
      [] OTHER ->
            IF mm.cnt < Len(mm.buf)
            THEN Yield([mm EXCEPT !.cnt = @ + 1], mm.buf[mm.cnt + 1].items)
            ELSE Stop(mm)

\* ---------------------------------------------------------------- INSPECT

g_inspect(mm) ==
    IF mm.loc = "new" THEN ForIter(mm, "loop")
    ELSE LET p == ForNext(mm) IN
         IF Ok(p) THEN Yield(Called(p), X(p)) ELSE Stop(p)

\* ---------------------------------------------------------------- SKIP_WHILE

\* itertools.dropwhile: __next__; cnt is its start flag.
ss_skip_while(mm) ==
    LET p == ForNext(mm) IN
    IF ~Ok(p) THEN Stop(p)
    ELSE IF mm.cnt = 1 THEN Yield(p, X(p))
    ELSE IF ~Truthy(Apply(mm.fn, X(p)))
         THEN Yield(Called([p EXCEPT !.cnt = 1]), X(p))
         ELSE Cont(Called(p))

\* Two loops over `stream`: the first ends by break (after its yield) or by
\* exhaustion, and the second starts with its own iter(stream).
g_skip_while(mm) ==
    CASE mm.loc = "new" -> ForIter(mm, "loop")
      [] mm.loc = "loop" ->
            LET p == ForNext(mm) IN
            IF ~Ok(p) THEN Cont([p EXCEPT !.loc = "break"])
            ELSE IF ~Truthy(Apply(mm.fn, X(p)))
                 THEN Yield(Called([p EXCEPT !.loc = "break"]), X(p))
                 ELSE Cont(Called(p))
      [] mm.loc = "break" -> ForIter(mm, "loop2")
      [] OTHER ->
            LET p == ForNext(mm) IN
            IF Ok(p) THEN Yield(p, X(p)) ELSE Stop(p)

\* ---------------------------------------------------------------- TAKE_WHILE

\* itertools.takewhile: __next__; cnt is its stop flag.
ss_take_while(mm) ==
    IF mm.cnt = 1 THEN Stop(mm)
    ELSE LET p == ForNext(mm) IN
         IF ~Ok(p) THEN Stop(p)
         ELSE IF Truthy(Apply(mm.fn, X(p))) THEN Yield(Called(p), X(p))
         ELSE Stop(Called([p EXCEPT !.cnt = 1]))

g_take_while(mm) ==
    IF mm.loc = "new" THEN ForIter(mm, "loop")
    ELSE LET p == ForNext(mm) IN
         IF ~Ok(p) THEN Stop(p)
         ELSE IF Truthy(Apply(mm.fn, X(p))) THEN Yield(Called(p), X(p))
         ELSE Stop(Called(p))

\* ---------------------------------------------------------------- ENUMERATE

\* map(lambda x: Enumeration(*x), b_enumerate(stream)): __next__.
s_enumerate(mm) ==
    LET p == ForNext(mm) IN
    IF Ok(p) THEN Yield([p EXCEPT !.cnt = @ + 1], <<mm.cnt, X(p)>>) ELSE Stop(p)

a_enumerate(mm) ==
    IF mm.loc = "new" THEN ForIter([mm EXCEPT !.cnt = 0], "loop")
    ELSE LET p == ForNext(mm) IN
         IF Ok(p) THEN Yield([p EXCEPT !.cnt = @ + 1], <<mm.cnt, X(p)>>) ELSE Stop(p)

\* ---------------------------------------------------------------- SKIP

\* g_skip with range(limit + 1): one element too many is discarded.
g_skip_one_more(mm) ==
    CASE mm.loc = "new" -> Cont([mm EXCEPT !.loc = "range", !.cnt = 0])
      [] mm.loc = "range" ->
            IF mm.cnt <= mm.limit
            THEN LET p == ForNext(mm) IN
                 IF Ok(p) THEN Cont([p EXCEPT !.cnt = @ + 1])
                 ELSE Cont([p EXCEPT !.loc = "break"])
            ELSE Cont([mm EXCEPT !.loc = "break"])
      [] mm.loc = "break" -> ForIter(mm, "loop")
      [] OTHER ->
            LET p == ForNext(mm) IN
            IF Ok(p) THEN Yield(p, X(p)) ELSE Stop(p)

\* cnt counts the iterations of `for _ in range(limit)` done so far.
g_skip(mm) ==
    CASE mm.loc = "new" -> Cont([mm EXCEPT !.loc = "range", !.cnt = 0])
      [] mm.loc = "range" ->
            IF mm.cnt < mm.limit
            THEN LET p == ForNext(mm) IN
                 IF Ok(p) THEN Cont([p EXCEPT !.cnt = @ + 1])
                 ELSE Cont([p EXCEPT !.loc = "break"])
            ELSE Cont([mm EXCEPT !.loc = "break"])
      [] mm.loc = "break" -> ForIter(mm, "loop")
      [] OTHER ->
            LET p == ForNext(mm) IN
            IF Ok(p) THEN Yield(p, X(p)) ELSE Stop(p)

\* ---------------------------------------------------------------- TAKE

\* g_take as a loop over the source that tests the limit after the pull: the
\* element after the last one taken is pulled and dropped.
g_take_pull_first(mm) ==
    IF mm.loc = "new" THEN Cont([mm EXCEPT !.loc = "range", !.cnt = 0])
    ELSE LET p == ForNext(mm) IN
         IF Ok(p) /\ mm.cnt < mm.limit THEN Yield([p EXCEPT !.cnt = @ + 1], X(p))
         ELSE Stop(p)

g_take(mm) ==
    IF mm.loc = "new" THEN Cont([mm EXCEPT !.loc = "range", !.cnt = 0])
    ELSE IF mm.cnt < mm.limit
         THEN LET p == ForNext(mm) IN
              IF Ok(p) THEN Yield([p EXCEPT !.cnt = @ + 1], X(p)) ELSE Stop(p)
         ELSE Stop(mm)

\* ---------------------------------------------------------------- ZIP

\* streams = [coerce(stream) for stream in streams]
CoerceAll(src) ==
    [ok |-> \A i \in 1..Len(src) : coerce(src[i]).ok,
     src |-> [i \in 1..Len(src) |-> coerce(src[i]).s]]

\* zip whose inner loop stops one source short: the group is yielded before
\* the last source is read.
zip_short_group(mm) ==
    CASE mm.loc = "new" ->
            LET c == CoerceAll(mm.src) IN
            IF c.ok
            THEN Cont([mm EXCEPT !.src = c.src, !.loc = "loop", !.idx = 1, !.buf = <<>>])
            ELSE Raise(mm, "TypeError")
      [] OTHER ->
            IF mm.idx >= Len(mm.src)
            THEN Yield([mm EXCEPT !.idx = 1, !.buf = <<>>], mm.buf)
            ELSE LET p == PullAt(mm, mm.idx)
                     s == p.src[mm.idx]
                 IN
                 IF s.ok
                 THEN Cont([p EXCEPT !.idx = @ + 1, !.buf = Append(@, s.x)])
                 ELSE Stop(p)

\* idx is the source the inner for loop stands at, buf the group so far. The
\* group is yielded when the inner loop has gone round every source; the
\* exhaustion of any source leaves `while True`.
zip(mm) ==
    CASE mm.loc = "new" ->
            LET c == CoerceAll(mm.src) IN
            IF c.ok
            THEN Cont([mm EXCEPT !.src = c.src, !.loc = "loop", !.idx = 1, !.buf = <<>>])
            ELSE Raise(mm, "TypeError")
      [] OTHER ->
            IF mm.idx > Len(mm.src)
            THEN Yield([mm EXCEPT !.idx = 1, !.buf = <<>>], mm.buf)
            ELSE LET p == PullAt(mm, mm.idx)
                     s == p.src[mm.idx]
                 IN
                 IF s.ok
                 THEN Cont([p EXCEPT !.idx = @ + 1, !.buf = Append(@, s.x)])
                 ELSE Stop(p)

\* ---------------------------------------------------------------- POOL

\* g_pool without its last two lines: the final, shorter group is lost.
g_pool_no_tail(mm) ==
    CASE mm.loc = "new" -> ForIter([mm EXCEPT !.buf = <<>>], "loop")
      [] mm.loc = "loop" ->
            LET p == ForNext(mm) IN
            IF Ok(p)
            THEN IF Len(mm.buf) + 1 = mm.limit
                 THEN Yield([p EXCEPT !.buf = <<>>], Append(mm.buf, X(p)))
                 ELSE Cont([p EXCEPT !.buf = Append(@, X(p))])
            ELSE Stop(p)
      [] OTHER -> Stop(mm)

g_pool(mm) ==
    CASE mm.loc = "new" -> ForIter([mm EXCEPT !.buf = <<>>], "loop")
      [] mm.loc = "loop" ->
            LET p == ForNext(mm) IN
            IF Ok(p)
            THEN IF Len(mm.buf) + 1 = mm.limit
                 THEN Yield([p EXCEPT !.buf = <<>>], Append(mm.buf, X(p)))
                 ELSE Cont([p EXCEPT !.buf = Append(@, X(p))])
            ELSE Cont([p EXCEPT !.loc = "tail"])
      [] mm.loc = "tail" ->
            IF Len(mm.buf) # 0
            THEN Yield([mm EXCEPT !.loc = "end"], mm.buf)
            ELSE Stop(mm)
      [] OTHER -> Stop(mm)

\* ---------------------------------------------------------------- SORT

RECURSIVE Insert(_, _)
Insert(s, x) ==
    IF s = <<>> THEN <<x>>
    ELSE IF x < Head(s) THEN <<x>> \o s
    ELSE <<Head(s)>> \o Insert(Tail(s), x)

RECURSIVE sorted(_)
sorted(s) == IF s = <<>> THEN <<>> ELSE Insert(sorted(Tail(s)), Head(s))

\* sorted(stream): a plain call, which drains the source and returns a list.
s_sort(mm) ==
    CASE mm.loc = "new" -> ForIter([mm EXCEPT !.buf = <<>>], "loop")
      [] mm.loc = "loop" ->
            LET p == ForNext(mm) IN
            IF Ok(p) THEN Cont([p EXCEPT !.buf = Append(@, X(p))])
            ELSE Ret([p EXCEPT !.buf = sorted(@), !.loc = "emit", !.cnt = 0])
      [] OTHER ->
            IF mm.cnt < Len(mm.buf)
            THEN Yield([mm EXCEPT !.cnt = @ + 1], mm.buf[mm.cnt + 1])
            ELSE Stop(mm)

a_sort(mm) ==
    CASE mm.loc = "new" -> ForIter([mm EXCEPT !.buf = <<>>], "loop")
      [] mm.loc = "loop" ->
            LET p == ForNext(mm) IN
            IF Ok(p) THEN Cont([p EXCEPT !.buf = Append(@, X(p))])
            ELSE Cont([p EXCEPT !.buf = sorted(@), !.loc = "emit", !.cnt = 0])
      [] OTHER ->
            IF mm.cnt < Len(mm.buf)
            THEN Yield([mm EXCEPT !.cnt = @ + 1], mm.buf[mm.cnt + 1])
            ELSE Stop(mm)

\* ---------------------------------------------------------------- REVERSE

reversed(s) == [i \in 1..Len(s) |-> s[Len(s) + 1 - i]]

g_reverse(mm) ==
    CASE mm.loc = "new" -> ForIter([mm EXCEPT !.buf = <<>>], "loop")
      [] mm.loc = "loop" ->
            LET p == ForNext(mm) IN
            IF Ok(p) THEN Cont([p EXCEPT !.buf = Append(@, X(p))])
            ELSE Cont([p EXCEPT !.buf = reversed(@), !.loc = "emit", !.cnt = 0])
      [] OTHER ->
            IF mm.cnt < Len(mm.buf)
            THEN Yield([mm EXCEPT !.cnt = @ + 1], mm.buf[mm.cnt + 1])
            ELSE Stop(mm)

\* ---------------------------------------------------------------- DISTINCT

g_distinct(mm) ==
    IF mm.loc = "new" THEN ForIter([mm EXCEPT !.seen = {}], "loop")
    ELSE LET p == ForNext(mm) IN
         IF ~Ok(p) THEN Stop(p)
         ELSE IF X(p) \in mm.seen THEN Cont(p)
         ELSE Yield([p EXCEPT !.seen = @ \cup {X(p)}], X(p))

\* ---------------------------------------------------------------- DISTINCT_WITH

g_distinct_with(mm) ==
    IF mm.loc = "new" THEN ForIter([mm EXCEPT !.seen = {}], "loop")
    ELSE LET p == ForNext(mm)
             h == Apply(mm.fn, X(p))
         IN
         IF ~Ok(p) THEN Stop(p)
         ELSE IF h \in mm.seen THEN Cont(Called(p))
         ELSE Yield(Called([p EXCEPT !.seen = @ \cup {h}]), X(p))

\* ---------------------------------------------------------------- FOR_EACH

g_for_each(mm) ==
    IF mm.loc = "new" THEN ForIter(mm, "loop")
    ELSE LET p == ForNext(mm) IN
         IF Ok(p) THEN Yield(Called(p), "None") ELSE Stop(p)

\* ---------------------------------------------------------------- STEP_BY

\* itertools.islice(stream, 0, None, step): __next__. cnt is the number of
\* elements read, nxt the index of the next element to hand out.
s_step_by(mm) ==
    LET p == ForNext(mm) IN
    IF ~Ok(p) THEN Stop(p)
    ELSE IF mm.cnt < mm.nxt THEN Cont([p EXCEPT !.cnt = @ + 1])
    ELSE Yield([p EXCEPT !.cnt = @ + 1, !.nxt = @ + mm.limit], X(p))

\* c % step: ZeroDivisionError for step = 0; for a negative step the remainder
\* is 0 exactly when |step| divides c.
a_step_by(mm) ==
    IF mm.loc = "new" THEN ForIter([mm EXCEPT !.cnt = 0], "loop")
    ELSE LET p == ForNext(mm) IN
         IF ~Ok(p) THEN Stop(p)
         ELSE IF mm.limit = 0 THEN Raise(p, "ZeroDivisionError")
         ELSE IF mm.cnt % Abs(mm.limit) = 0
              THEN Yield([p EXCEPT !.cnt = @ + 1], X(p))
              ELSE Cont([p EXCEPT !.cnt = @ + 1])

\* ---------------------------------------------------------------- FLATTEN

\* The outer loop hands out the next inner value (an index into src), which
\* is coerced and then read to its end by the inner loop.
g_flatten(mm) ==
    CASE mm.loc = "new" -> ForIter(mm, "outer")
      [] mm.loc = "outer" ->
            LET p == ForNext(mm)
                c == coerce(mm.src[X(p)])
            IN
            IF ~Ok(p) THEN Stop(p)
            ELSE IF ~c.ok THEN Raise(p, "TypeError")
            ELSE Cont([p EXCEPT !.src[X(p)] = c.s, !.idx = X(p), !.loc = "inner"])
      [] OTHER ->
            LET p == PullAt(mm, mm.idx) IN
            IF p.src[mm.idx].ok THEN Yield(p, p.src[mm.idx].x)
            ELSE Cont([p EXCEPT !.loc = "outer"])

\* ---------------------------------------------------------------- CHAIN

\* async for x in flatten(streams): when the generator starts, flatten is
\* called on the tuple of arguments (factory coerces it, s_flatten reads it).
chain(mm) ==
    IF mm.loc = "new"
    THEN Cont([mm EXCEPT !.src[1] = coerce(@).s, !.loc = "outer"])
    ELSE g_flatten(mm)

\* ------------------------------------------------------------- running

\* The code each implementation runs from where its frame stands.
Step(mm) ==
    CASE mm.impl = "ss_map" -> ss_map(mm)
      [] mm.impl \in {"sa_map", "as_map", "aa_map"} -> g_map(mm)
      [] mm.impl = "ss_filter" -> ss_filter(mm)
      [] mm.impl \in {"sa_filter", "as_filter", "aa_filter"} -> g_filter(mm)
      [] mm.impl = "ss_filter_false" -> ss_filter_false(mm)
      [] mm.impl \in {"sa_filter_false", "as_filter_false", "aa_filter_false"} ->
            g_filter_false(mm)
      [] mm.impl \in {"ss_group_by", "sa_group_by", "as_group_by", "aa_group_by"} ->
            g_group_by(mm)
      [] mm.impl \in {"ss_inspect", "sa_inspect", "as_inspect", "aa_inspect"} ->
            g_inspect(mm)
      [] mm.impl = "ss_skip_while" -> ss_skip_while(mm)
      [] mm.impl \in {"sa_skip_while", "as_skip_while", "aa_skip_while"} ->
            g_skip_while(mm)
      [] mm.impl = "ss_take_while" -> ss_take_while(mm)
      [] mm.impl \in {"sa_take_while", "as_take_while", "aa_take_while"} ->
            g_take_while(mm)
      [] mm.impl \in {"ss_distinct_with", "sa_distinct_with", "as_distinct_with",
                      "aa_distinct_with"} -> g_distinct_with(mm)
      [] mm.impl \in {"ss_for_each", "sa_for_each", "as_for_each", "aa_for_each"} ->
            g_for_each(mm)
      [] mm.impl = "s_enumerate" -> s_enumerate(mm)
      [] mm.impl = "a_enumerate" -> a_enumerate(mm)
      [] mm.impl \in {"s_skip", "a_skip"} -> g_skip(mm)
      [] mm.impl \in {"s_take", "a_take"} -> g_take(mm)
      [] mm.impl \in {"s_pool", "a_pool"} -> g_pool(mm)
      [] mm.impl = "s_sort" -> s_sort(mm)
      [] mm.impl = "a_sort" -> a_sort(mm)
      [] mm.impl \in {"s_reverse", "a_reverse"} -> g_reverse(mm)
      [] mm.impl \in {"s_distinct", "a_distinct"} -> g_distinct(mm)
      [] mm.impl = "s_step_by" -> s_step_by(mm)
      [] mm.impl = "a_step_by" -> a_step_by(mm)
      [] mm.impl \in {"s_flatten", "a_flatten"} -> g_flatten(mm)
      [] mm.impl = "zip" -> zip(mm)
      [] OTHER -> chain(mm)

\* The frame runs on until it yields, ends, raises or returns. (r names the
\* frame after one step, so that the step is evaluated once.)
RECURSIVE Run(_)
Run(mm) ==
    IF mm.ev # "cont" THEN mm
    ELSE CHOOSE end \in {Run(r) : r \in {Step(mm)}} : TRUE

\* The implementations that are builtin iterator types: calling one calls
\* iter(stream) in its constructor.
Builtins ==
    {"ss_map", "ss_filter", "ss_filter_false", "ss_skip_while", "ss_take_while",
     "s_enumerate"}

\* A constructor that did not raise returns the new object.
Constructed(mm) == IF mm.ev = "cont" THEN Ret(mm) ELSE mm

\* Calling an implementation. A generator function only creates its frame, no
\* line of its body runs; a builtin type is constructed; islice checks its step
\* first; sorted runs to its end.
Call(mm) ==
    CASE mm.impl \in Builtins -> Constructed(ForIter(mm, "loop"))
      [] mm.impl = "s_step_by" ->
            IF mm.limit < 1 THEN Raise(mm, "ValueError")
            ELSE Constructed(ForIter(mm, "loop"))
      [] mm.impl = "s_sort" -> Run(Cont(mm))
      [] OTHER -> Ret(mm)

\* factory(s, a)(stream, *args)
factory(s, a, fn, src, limit) ==
    LET c == coerce(src[1])
        stream == [src EXCEPT ![1] = c.s]
    IN
    IF ~c.ok THEN Raise(NewFrame("none", fn, src, limit), "TypeError")
    ELSE Call(NewFrame(IF is_async_stream(c.s) THEN a ELSE s, fn, stream, limit))

\* higher_order_factory(ss, sa, _as, aa)(f, stream): the implementation chosen.
Selected(ss, sa, as, aa, fn, stream) ==
    LET f_is_async == iscoroutinefunction(fn)
        stream_is_async == is_async_stream(stream)
    IN
    IF ~f_is_async /\ ~stream_is_async THEN ss
    ELSE IF ~f_is_async /\ stream_is_async THEN sa
    ELSE IF f_is_async /\ ~stream_is_async THEN as
    ELSE aa

higher_order_factory(ss, sa, as, aa, fn, src, limit) ==
    Call(NewFrame(Selected(ss, sa, as, aa, fn, src[1]), fn, src, limit))

\* ------------------------------------------------------------- exports

HigherOrderOps ==
    {"map", "filter", "filter_false", "group_by", "inspect", "for_each",
     "skip_while", "take_while", "distinct_with"}

CountedOps == {"pool", "skip", "step_by", "take"}

PlainOps == {"distinct", "enumerate", "reverse", "sort"}

ManyOps == {"zip", "chain", "flatten"}

Ops == HigherOrderOps \cup CountedOps \cup PlainOps \cup ManyOps

\* The exported operator o called with (fn, src, limit).
Export(o, fn, src, limit) ==
    CASE o \in HigherOrderOps ->
            higher_order_factory("ss_" \o o, "sa_" \o o, "as_" \o o, "aa_" \o o,
                                 fn, src, limit)
      [] o \in {"chain", "zip"} -> Call(NewFrame(o, fn, src, limit))
      [] OTHER -> factory("s_" \o o, "a_" \o o, fn, src, limit)

\* ------------------------------------------------------------- the calls

Fns == [name : FNames, async : BOOLEAN]

NoFn == [name |-> "never", async |-> FALSE]

\* A single source argument, of any shape, over any data.
OneSource == {<<Stream(k, d)>> : k \in Kinds, d \in SeqsUpTo(Vals, MaxLen)}

\* Several sources: element j of the i-th is written 10 * i + j, so that every
\* element of every source is told from every other.
Elem(i, j) == 10 * i + j

ManySourcesOf(n) ==
    {[i \in 1..n |-> Stream(ks[i], [j \in 1..ls[i] |-> Elem(i, j)])] :
        ks \in [1..n -> Kinds], ls \in [1..n -> 0..MaxSrcLen]}

ManySources == UNION {ManySourcesOf(n) : n \in 0..MaxSrc}

\* A source of sources of shape k handing out the inner sources in order.
Nested(k, inner) ==
    <<Stream(k, [i \in 1..Len(inner) |-> i + 1])>> \o inner

Arguments(o) ==
    CASE o = "zip" -> ManySources
      [] o = "chain" -> {Nested("Iterable", s) : s \in ManySources}
      [] o = "flatten" -> {Nested(k, s) : k \in Kinds, s \in ManySources}
      [] OTHER -> OneSource

\* The state before the operator is called, for the operators in S.
InitOps(S) ==
    /\ op \in S
    /\ f \in (IF op \in HigherOrderOps THEN Fns ELSE {NoFn})
    /\ arg \in (IF op \in CountedOps THEN -1..MaxArg ELSE {0})
    /\ streams \in Arguments(op)
    /\ phase = "start"
    /\ err = "none"
    /\ m = NewFrame("none", f, streams, arg)
    /\ out = <<>>
    /\ demands = 0

Init == InitOps(Ops)

\* ------------------------------------------------------------- actions

\* The exported operator is called. It raises, or returns the output handle.
Invoke ==
    /\ phase = "start"
    /\ m' = Export(op, f, streams, arg)
    /\ phase' = (IF m'.ev = "raise" THEN "failed" ELSE "live")
    /\ err' = m'.exc
    /\ UNCHANGED <<op, f, streams, arg, out, demands>>

\* The consumer demands the next output element: the frame runs to its next
\* yield, to its end or to an exception. out records the first MaxOut
\* elements; demands counts to MaxOut + 1 and from there alternates between
\* MaxOut and MaxOut + 1.
Demand ==
    /\ phase = "live"
    /\ m' = Run(Cont(m))
    /\ phase' = (CASE m'.ev = "yield" -> "live"
                   [] m'.ev = "stop" -> "done"
                   [] OTHER -> "failed")
    /\ err' = m'.exc
    /\ out' = (IF m'.ev = "yield" /\ Len(out) < MaxOut THEN Append(out, m'.val) ELSE out)
    /\ demands' = (IF demands > MaxOut THEN MaxOut ELSE demands + 1)
    /\ UNCHANGED <<op, f, streams, arg>>

Next == Invoke \/ Demand

Spec == Init /\ [][Next]_vars

\* The operators one at a time, for the properties that speak of a few of them.
\* A consumer that keeps demanding is weak fairness of Next: the next demand
\* is made whenever the output has not ended.
SpecZip == InitOps({"zip"}) /\ [][Next]_vars /\ WF_vars(Next)

SpecCounted == InitOps(CountedOps) /\ [][Next]_vars

LazyOps == {"map", "inspect", "for_each", "enumerate", "take"}

SpecLazy == InitOps(LazyOps) /\ [][Next]_vars

\* ------------------------------------------------------------- observations

\* The source argument, as given, and what has been pulled from it.
Source == streams[1]

Data == streams[1].data

Pulled == m.src[1].pulled

\* The positions in streams of the arguments that are offered as sequences.
SourceArgs ==
    CASE op = "zip" -> 1..Len(streams)
      [] op = "chain" -> 2..Len(streams)
      [] OTHER -> {1}

\* Every source argument is a synchronous or a suspending sequence.
Classifiable == \A i \in SourceArgs : streams[i].kind # "Neither"

\* The same data in the other shape: a cursor stays a cursor, a collection a
\* collection.
Shaped(s, async) ==
    [s EXCEPT !.kind =
        CASE @ \in {"Iterator", "AsyncIterator"} ->
                (IF async THEN "AsyncIterator" ELSE "Iterator")
          [] @ \in {"Iterable", "AsyncIterable"} ->
                (IF async THEN "AsyncIterable" ELSE "Iterable")
          [] OTHER -> @]

\* Everything a handle yields when it is consumed to its end.
RECURSIVE Drain(_, _)
Drain(mm, acc) ==
    IF mm.ev = "yield" THEN Drain(Run(Cont(mm)), Append(acc, mm.val))
    ELSE acc

\* The whole output of the exported operator o on (fn, src, limit).
Collect(o, fn, src, limit) ==
    LET h == Export(o, fn, src, limit) IN
    IF h.ev = "raise" THEN <<>> ELSE Drain(Run(Cont(h)), <<>>)

RECURSIVE Concat(_)
Concat(ss) == IF ss = <<>> THEN <<>> ELSE Head(ss) \o Concat(Tail(ss))

IsPrefix(a, b) == Len(a) <= Len(b) /\ a = SubSeq(b, 1, Len(a))

\* The index of the first element of s on which fn is false, Len(s) + 1 if none.
RECURSIVE FirstFailing(_, _, _)
FirstFailing(fn, s, i) ==
    IF i > Len(s) \/ ~Truthy(Apply(fn, s[i])) THEN i ELSE FirstFailing(fn, s, i + 1)

\* ------------------------------------------------------------- properties

\* C1. Dispatch correctness: an operator that takes a function yields the same
\* output, element for element, in the four combinations of a synchronous or
\* suspending function with a synchronous or suspending source, whether the
\* source is a cursor or a collection that only produces one.
C1_DispatchEquivalence ==
    (op \in HigherOrderOps /\ Classifiable /\ phase = "done") =>
        \A fa \in BOOLEAN, sa \in BOOLEAN :
            Collect(op, [f EXCEPT !.async = fa], <<Shaped(Source, sa)>>, arg) = out

\* C2. skip_while, in each of its four variants and for every source it
\* accepts, yields exactly the suffix of the source that starts at the first
\* element on which f is false.
C2_SkipWhileSuffix ==
    (op = "skip_while" /\ Classifiable /\ phase = "done") =>
        out = SubSeq(Data, FirstFailing(f, Data, 1), Len(Data))

\* C3. pool with size <= 0 and step_by with n <= 0 fail with InvalidArgument
\* (Python's ValueError), in both shapes, and before any element is pulled.
C3_InvalidArgument ==
    (op \in {"pool", "step_by"} /\ arg <= 0 /\ Classifiable /\ phase # "start") =>
        phase = "failed" /\ err = "ValueError" /\ Pulled = 0

\* C4. Every exported operator invoked with a source that is neither a
\* synchronous nor a suspending sequence fails with TypeClassification
\* (TypeError) when it is invoked: no handle is returned, nothing is demanded.
C4_TypeClassification ==
    (~Classifiable /\ phase # "start") =>
        phase = "failed" /\ err = "TypeError" /\ demands = 0

\* C5. No operator pulls again on a source cursor that has signalled
\* exhaustion to it.
C5_NoReentry == \A i \in 1..Len(m.src) : m.src[i].late = 0

\* The length of the shortest of zip's sources.
MinLen ==
    CHOOSE n \in 0..MaxSrcLen :
        /\ \A i \in 1..Len(streams) : n <= Len(streams[i].data)
        /\ \E i \in 1..Len(streams) : n = Len(streams[i].data)

\* C6. zip over one or more finite sources yields min(len) tuples, the i-th
\* holding the i-th element of every source in argument order, and yields
\* nothing more once any source has signalled exhaustion.
C6_ZipShortest ==
    (op = "zip" /\ Len(streams) >= 1 /\ Classifiable) =>
        /\ Len(out) <= MinLen
        /\ \A i \in 1..Len(out) :
              out[i] = [k \in 1..Len(streams) |-> streams[k].data[i]]
        /\ phase = "done" => Len(out) = MinLen
        /\ (\E k \in 1..Len(streams) : m.src[k].exh) => phase = "done"

C6_Witness ==
    /\ op = "zip" /\ Len(streams) = 2 /\ phase = "done"
    /\ streams[1].kind = "Iterable" /\ streams[2].kind = "AsyncIterator"
    /\ Len(streams[1].data) = 1 /\ Len(streams[2].data) = 2
    /\ out = <<<<Elem(1, 1), Elem(2, 1)>>>>
    /\ m.src[1].exh /\ ~m.src[2].exh

\* C7. For n >= 0 and both shapes, take(s, n) yields the first min(n, |s|)
\* elements of s, skip(s, n) on an independent copy yields the rest, and
\* take(s, n) ++ skip(s, n) = s.
C7_TakeSkip ==
    (op \in {"take", "skip"} /\ arg >= 0 /\ Classifiable /\ phase = "done") =>
        LET n == Min(arg, Len(Data)) IN
        /\ op = "take" =>
              /\ out = SubSeq(Data, 1, n)
              /\ out \o Collect("skip", f, streams, arg) = Data
        /\ op = "skip" =>
              /\ out = SubSeq(Data, n + 1, Len(Data))
              /\ Collect("take", f, streams, arg) \o out = Data

C7_Witness ==
    /\ op = "skip" /\ arg = 1 /\ Source.kind = "AsyncIterable"
    /\ Len(Data) = 3 /\ phase = "done" /\ out = SubSeq(Data, 2, 3)

\* C8. map, inspect, for_each, enumerate and take pull nothing when invoked and
\* never more elements than output elements have been demanded; take(c, n)
\* never removes more than n elements from c.
C8_Lazy ==
    op \in LazyOps =>
        /\ Pulled <= demands
        /\ op = "take" => Pulled <= (IF arg > 0 THEN arg ELSE 0)

C8_Witness ==
    /\ op = "take" /\ arg = 2 /\ Len(Data) = 3 /\ Source.kind = "Iterator"
    /\ phase = "done" /\ demands = 3 /\ Pulled = 2

\* C9. pool(s, k) for k >= 1, in both shapes: the groups concatenated are s,
\* every group but the last has length k, the last between 1 and k, and no
\* group is empty.
C9_Pool ==
    (op = "pool" /\ arg >= 1 /\ Classifiable) =>
        /\ IsPrefix(Concat(out), Data)
        /\ phase = "done" => Concat(out) = Data
        /\ \A i \in 1..Len(out) :
              /\ 1 <= Len(out[i]) /\ Len(out[i]) <= arg
              /\ i < Len(out) => Len(out[i]) = arg

C9_Witness ==
    /\ op = "pool" /\ arg = 2 /\ Len(Data) = 3 /\ Source.kind = "AsyncIterator"
    /\ phase = "done" /\ Len(out) = 2 /\ Len(out[2]) = 1

\* C10. zip over finite sources, none included, ends: a consumer that keeps
\* demanding reaches zip's exhaustion signal (or, for an argument that is no
\* sequence, the TypeError of the first demand).
C10_ZipTerminates == <>(phase = "done" \/ phase = "failed")

====
